---- MODULE Spec2Model ----
(***************************************************************************)
(* Model of the M3U8 downloader (src/src/main.rs): the orchestrator        *)
(* M3U8::download, the fetcher threads M3U8::download_ts, the writer       *)
(* thread, and the mpsc channel between them.                              *)
(***************************************************************************)
EXTENDS Integers, Sequences, FiniteSets, TLC

\* ---------------------------------------------------------------- bounds
MaxLines == 3          \* lines of a playlist
MaxThreads == 3        \* largest -j value tried

\* ------------------------------------------------------- the input space
Names == {"a.ts", "b.ts"}

\* A line is a sequence of words; a word of Names is what the pattern
\* [a-zA-Z0-9]+\.ts matches, any other word is not matched.
Lines == {<<"#EXTINF:">>, <<"a.ts">>, <<"http://host/", "b.ts">>}

RECURSIVE SeqsUpTo(_, _)
SeqsUpTo(S, n) ==
    IF n = 0 THEN {<<>>}
    ELSE LET shorter == SeqsUpTo(S, n - 1)
         IN  shorter \cup {Append(s, x) : s \in {t \in shorter : Len(t) = n - 1}, x \in S}

Playlists == SeqsUpTo(Lines, MaxLines)

BaseUrls == {"http://host/", "not a url"}

HeaderPaths == {"", "h.json"}

\* What the header file can hold: unreadable, unparseable, or a JSON value.
\* entries is the key/value list of a JSON object (empty for a non-object).
HeaderDocs ==
    { [readable |-> FALSE, parses |-> FALSE, entries |-> <<>>],
      [readable |-> TRUE,  parses |-> FALSE, entries |-> <<>>],
      [readable |-> TRUE,  parses |-> TRUE,
       entries |-> << [k |-> "Authorization", v |-> "Bearer X", str |-> TRUE],
                      [k |-> "Retries", v |-> "3", str |-> FALSE] >>],
      [readable |-> TRUE,  parses |-> TRUE,
       entries |-> << [k |-> "bad name", v |-> "x", str |-> TRUE] >>] }

\* No header file is configured: there is nothing to read.
NoHeaderFile == [readable |-> FALSE, parses |-> FALSE, entries |-> <<>>]

\* Outcomes of one GET: a 2xx response, a non-success response, a transport
\* error from send(), an error while reading the body.
Outcomes == {"ok", "status404", "neterr", "bodyerr"}

VARIABLES
    pc,          \* where M3U8::download stands
    diag,        \* the last diagnostic / panic of the main thread
    exitCode,    \* process exit status, -1 while running
    resume,      \* M3U8.resume
    thread_num,  \* download's parameter
    header,      \* M3U8.header (path)
    base_url,    \* M3U8.base_url
    headerDoc,   \* what the file at M3U8.header holds
    content,     \* load_m3u8's `content`, <<>> outside load_m3u8
    list,        \* the local `list` of download
    extracted,   \* history: the list as load_m3u8 returned it
    files,       \* the output directory: name -> content
    atFilter,    \* the directory as it was when resume filtering ran
    chunks,      \* the chunks iterator `iter`: the chunks not yet handed out
    headers,     \* the parsed header set
    total,       \* the progress bar's total
    pb,          \* the progress bar's counter
    writer,      \* the writer thread's state
    workers,     \* the fetcher threads, in spawn order
    chan,        \* the mpsc channel's queue
    mainTx,      \* the orchestrator still holds its Sender
    wlog,        \* per fetcher, the chunk positions written so far, in order
    joined       \* how many handles of thread_pool have been joined

vars == <<pc, diag, exitCode, resume, thread_num, header, base_url, headerDoc, content,
          list, extracted, files, atFilter, chunks, headers, total, pb, writer, workers,
          chan, mainTx, wlog, joined>>

cfgVars == <<resume, thread_num, header, base_url, headerDoc>>

Terminal == {"ReadFailed", "InvalidM3U8", "EarlyDone", "Done", "Fatal"}

Running == pc \notin Terminal

\* ------------------------------------------------------- pure functions

\* Regex::find on one line: the first matching word, if any.
RECURSIVE ts_match(_)
ts_match(line) ==
    IF line = <<>> THEN <<>>
    ELSE IF Head(line) \in Names THEN <<Head(line)>>
    ELSE ts_match(Tail(line))

\* load_m3u8's loop: one entry per line that has a match, in line order.
RECURSIVE load_m3u8(_)
load_m3u8(text) ==
    IF text = <<>> THEN <<>>
    ELSE ts_match(Head(text)) \o load_m3u8(Tail(text))

\* check_exist with the test inverted.
check_exist_inverted(dir, ts) == dir[ts] = "none"

\* check_exist: the path <output>/<ts> exists.
check_exist(dir, ts) == dir[ts] # "none"

\* The filter without the negation: keeps the names whose file exists.
RECURSIVE FilterExisting(_, _)
FilterExisting(l, dir) ==
    IF l = <<>> THEN <<>>
    ELSE IF dir[Head(l)] # "none"
         THEN <<Head(l)>> \o FilterExisting(Tail(l), dir)
         ELSE FilterExisting(Tail(l), dir)

\* list.iter().filter(|ts| !check_exist(ts)).collect()
RECURSIVE FilterNotExist(_, _)
FilterNotExist(l, dir) ==
    IF l = <<>> THEN <<>>
    ELSE IF ~check_exist(dir, Head(l))
         THEN <<Head(l)>> \o FilterNotExist(Tail(l), dir)
         ELSE FilterNotExist(Tail(l), dir)

\* slice::chunks(size) for size > 0: pieces of `size` elements, the last
\* one holding what is left over (1..size elements).
RECURSIVE Chunks(_, _)
Chunks(s, size) ==
    IF s = <<>> THEN <<>>
    ELSE IF Len(s) <= size THEN <<s>>
    ELSE <<SubSeq(s, 1, size)>> \o Chunks(SubSeq(s, size + 1, Len(s)), size)

\* parse_header's loop over a JSON object: string-valued entries only.
RECURSIVE StringEntries(_)
StringEntries(es) ==
    IF es = <<>> THEN <<>>
    ELSE IF Head(es).str
         THEN <<[k |-> Head(es).k, v |-> Head(es).v]>> \o StringEntries(Tail(es))
         ELSE StringEntries(Tail(es))

\* Url::parse(base_url).unwrap().join(ts).unwrap() does not panic.
UrlResolves(b) == b = "http://host/"

\* HeaderName::from_bytes(..).unwrap() does not panic for any entry.
HeaderNamesValid(hs) == \A i \in 1..Len(hs) : hs[i].k # "bad name"

\* Sender handles counted as if a panicking fetcher kept its own (no unwind).
SendersLeaked ==
    (IF mainTx THEN 1 ELSE 0)
    + Cardinality({w \in 1..Len(workers) : workers[w].st \in {"running", "panicked"}})

\* Number of Sender handles alive.
Senders ==
    (IF mainTx THEN 1 ELSE 0)
    + Cardinality({w \in 1..Len(workers) : workers[w].st = "running"})

\* ------------------------------------------------------------- Init
Init ==
    /\ pc = "Init"
    /\ diag = ""
    /\ exitCode = -1
    /\ resume \in BOOLEAN
    /\ thread_num \in (-1)..MaxThreads
    /\ header \in HeaderPaths
    /\ base_url \in BaseUrls
    /\ headerDoc \in IF header = "" THEN {NoHeaderFile} ELSE HeaderDocs
    /\ content = <<>>
    /\ list = <<>>
    /\ extracted = <<>>
    /\ files \in [Names -> {"none", "old"}]
    /\ atFilter = files
    /\ chunks = <<>>
    /\ headers = <<>>
    /\ total = 0
    /\ pb = 0
    /\ writer = "none"
    /\ workers = <<>>
    /\ chan = <<>>
    /\ mainTx = FALSE
    /\ wlog = [w \in 1..MaxLines |-> <<>>]
    /\ joined = 0

Die(msg) ==
    /\ pc' = "Fatal"
    /\ diag' = msg
    /\ exitCode' = 101

Goto(p) ==
    /\ pc' = p
    /\ UNCHANGED <<diag, exitCode>>

Exit0(p, msg) ==
    /\ pc' = p
    /\ diag' = msg
    /\ exitCode' = 0

\* ------------------------------------------- the orchestrator: download

\* lines 107-109: create the output directory when it is missing.
CreateOutputDir ==
    /\ pc = "Init"
    /\ \E exists \in BOOLEAN, created \in BOOLEAN :
          /\ (\E n \in Names : files[n] # "none") => exists
          /\ IF exists \/ created THEN Goto("Load") ELSE Die("create_dir_all")
    /\ UNCHANGED <<cfgVars, content, list, extracted, files, atFilter, chunks, headers,
                   total, pb, writer, workers, chan, mainTx, wlog, joined>>

\* line 110 entering load_m3u8, lines 52-55: read the playlist file.
ReadM3U8 ==
    /\ pc = "Load"
    /\ \/ /\ Exit0("ReadFailed", "read failed")
          /\ UNCHANGED content
       \/ \E c \in Playlists :
             /\ content' = c
             /\ Goto("Scan")
    /\ UNCHANGED <<cfgVars, list, extracted, files, atFilter, chunks, headers,
                   total, pb, writer, workers, chan, mainTx, wlog, joined>>

\* The scan without the test for an empty list (lines 111-114 left out).
LoadM3U8NoCheck ==
    /\ pc = "Scan"
    /\ list' = load_m3u8(content)
    /\ extracted' = list'
    /\ content' = <<>>
    /\ Goto("ListLoaded")
    /\ UNCHANGED <<cfgVars, files, atFilter, chunks, headers, total, pb,
                   writer, workers, chan, mainTx, wlog, joined>>

\* lines 57-65 and 110-114: scan the lines, return the list (content is
\* dropped), stop when the list is empty.
LoadM3U8 ==
    /\ pc = "Scan"
    /\ list' = load_m3u8(content)
    /\ extracted' = list'
    /\ content' = <<>>
    /\ IF Len(list') = 0
       THEN Exit0("InvalidM3U8", "m3u8 format is invalid")
       ELSE Goto("ListLoaded")
    /\ UNCHANGED <<cfgVars, files, atFilter, chunks, headers, total, pb,
                   writer, workers, chan, mainTx, wlog, joined>>

\* The resume flag ignored: the list is never filtered.
ResumeFilterSkipped ==
    /\ pc = "ListLoaded"
    /\ atFilter' = files
    /\ Goto("Filtered")
    /\ UNCHANGED <<cfgVars, content, list, extracted, files, chunks, headers,
                   total, pb, writer, workers, chan, mainTx, wlog, joined>>

\* lines 116-122: drop the names whose file exists, when resuming.
ResumeFilter ==
    /\ pc = "ListLoaded"
    /\ list' = IF resume THEN FilterNotExist(list, files) ELSE list
    /\ atFilter' = files
    /\ Goto("Filtered")
    /\ UNCHANGED <<cfgVars, content, extracted, files, chunks, headers, total, pb,
                   writer, workers, chan, mainTx, wlog, joined>>

\* The early exit on an empty filtered list left out.
CheckEmptyMissing ==
    /\ pc = "Filtered"
    /\ Goto("Partition")
    /\ UNCHANGED <<cfgVars, content, list, extracted, files, atFilter, chunks,
                   headers, total, pb, writer, workers, chan, mainTx, wlog, joined>>

\* lines 124-127: nothing left to download.
CheckEmpty ==
    /\ pc = "Filtered"
    /\ IF Len(list) = 0 THEN Exit0("EarlyDone", "Done!") ELSE Goto("Partition")
    /\ UNCHANGED <<cfgVars, content, list, extracted, files, atFilter, chunks, headers,
                   total, pb, writer, workers, chan, mainTx, wlog, joined>>

\* list.len() / (thread_num as usize): a negative thread_num wraps to a
\* value of at least 2^63, larger than any list length, so the quotient
\* is 0.  thread_num = 0 is a division by zero.
ChunkSize(len, n) == IF n < 0 THEN 0 ELSE len \div n

\* lines 129-130: list.chunks(list.len() / thread_num) panics on size 0.
Partition ==
    /\ pc = "Partition"
    /\ IF thread_num = 0
       THEN Die("attempt to divide by zero") /\ UNCHANGED chunks
       ELSE IF ChunkSize(Len(list), thread_num) = 0
            THEN Die("chunk size must be non-zero") /\ UNCHANGED chunks
            ELSE /\ chunks' = Chunks(list, ChunkSize(Len(list), thread_num))
                 /\ Goto("SpawnWriter")
    /\ UNCHANGED <<cfgVars, content, list, extracted, files, atFilter, headers, total,
                   pb, writer, workers, chan, mainTx, wlog, joined>>

\* lines 131-142: create the channel, start the writer thread.
SpawnWriter ==
    /\ pc = "SpawnWriter"
    /\ mainTx' = TRUE
    /\ chan' = <<>>
    /\ total' = Len(list)
    /\ pb' = 0
    /\ writer' = "running"
    /\ Goto("ParseHeader")
    /\ UNCHANGED <<cfgVars, content, list, extracted, files, atFilter, chunks, headers,
                   workers, wlog, joined>>

\* line 145 with parse_header (29-49).
ParseHeader ==
    /\ pc = "ParseHeader"
    /\ IF header = ""
       THEN headers' = <<>> /\ Goto("SpawnWorkers")
       ELSE IF ~headerDoc.readable
            THEN Die("read header") /\ UNCHANGED headers
            ELSE IF ~headerDoc.parses
                 THEN Die("parse header") /\ UNCHANGED headers
                 ELSE /\ headers' = StringEntries(headerDoc.entries)
                      /\ Goto("SpawnWorkers")
    /\ UNCHANGED <<cfgVars, content, list, extracted, files, atFilter, chunks, total,
                   pb, writer, workers, chan, mainTx, wlog, joined>>

\* lines 146-154: one iteration of `for i in iter`: spawn a fetcher thread
\* owning the next chunk and a clone of the Sender.
SpawnWorker ==
    /\ pc = "SpawnWorkers"
    /\ chunks # <<>>
    /\ workers' = Append(workers, [data |-> Head(chunks), res |-> <<>>, st |-> "running"])
    /\ chunks' = Tail(chunks)
    /\ IF chunks' = <<>> THEN Goto("Scheduled") ELSE Goto("SpawnWorkers")
    /\ UNCHANGED <<cfgVars, content, list, extracted, files, atFilter, headers, total,
                   pb, writer, chan, mainTx, wlog, joined>>

\* The orchestrator keeping its Sender (drop(tx) left out).
DropTxMissing ==
    /\ pc = "Scheduled"
    /\ Goto("Draining")
    /\ UNCHANGED <<cfgVars, content, list, extracted, files, atFilter, chunks,
                   headers, total, pb, writer, workers, chan, mainTx, wlog, joined>>

\* line 156: drop(tx).
DropTx ==
    /\ pc = "Scheduled"
    /\ mainTx' = FALSE
    /\ Goto("Draining")
    /\ UNCHANGED <<cfgVars, content, list, extracted, files, atFilter, chunks, headers,
                   total, pb, writer, workers, chan, wlog, joined>>

\* The join loop with the result of join() discarded (no unwrap).
JoinNextIgnoringPanic ==
    /\ pc = "Draining"
    /\ joined < 1 + Len(workers)
    /\ (IF joined = 0 THEN writer ELSE workers[joined].st) \in {"finished", "panicked"}
    /\ joined' = joined + 1
    /\ IF joined' = 1 + Len(workers) THEN Exit0("Done", "Done!") ELSE Goto("Draining")
    /\ UNCHANGED <<cfgVars, content, list, extracted, files, atFilter, chunks, headers,
                   total, pb, writer, workers, chan, mainTx, wlog>>

\* The join loop not waiting for the threads (handles dropped, not joined).
JoinNextNoWait ==
    /\ pc = "Draining"
    /\ joined < 1 + Len(workers)
    /\ joined' = joined + 1
    /\ IF joined' = 1 + Len(workers) THEN Exit0("Done", "Done!") ELSE Goto("Draining")
    /\ UNCHANGED <<cfgVars, content, list, extracted, files, atFilter, chunks, headers,
                   total, pb, writer, workers, chan, mainTx, wlog>>

\* State of the joined-th handle of thread_pool: the writer first, then
\* the fetchers in spawn order.
HandleState(j) == IF j = 1 THEN writer ELSE workers[j - 1].st

\* lines 158-160: one iteration of the join loop; join blocks until the
\* thread has ended and unwrap panics when the thread panicked.  After the
\* last handle download returns and main ends.
JoinNext ==
    /\ pc = "Draining"
    /\ joined < 1 + Len(workers)
    /\ HandleState(joined + 1) \in {"finished", "panicked"}
    /\ IF HandleState(joined + 1) = "panicked"
       THEN Die("join") /\ UNCHANGED joined
       ELSE /\ joined' = joined + 1
            /\ IF joined' = 1 + Len(workers) THEN Exit0("Done", "Done!") ELSE Goto("Draining")
    /\ UNCHANGED <<cfgVars, content, list, extracted, files, atFilter, chunks, headers,
                   total, pb, writer, workers, chan, mainTx, wlog>>

Orchestrator ==
    \/ CreateOutputDir
    \/ ReadM3U8
    \/ LoadM3U8
    \/ ResumeFilter
    \/ CheckEmpty
    \/ Partition
    \/ SpawnWriter
    \/ ParseHeader
    \/ SpawnWorker
    \/ DropTx
    \/ JoinNext

\* ------------------------------------------------ fetcher: download_ts

\* What the fetcher's log line / payload tells about one GET.
Class(o) == IF o \in {"neterr", "bodyerr"} THEN "failed" ELSE o

\* The fetcher's state after iteration k of a chunk of n names: after the
\* last one the loop ends, download_ts returns and the Sender is dropped.
After(k, n) == IF k = n THEN "finished" ELSE "running"

\* A failed GET ending the fetcher's loop (break for continue).
LogAndBreak(r, k, n) ==
    [r EXCEPT !.res = Append(@, "failed"), !.st = "finished"]

\* lines 82-85 and 92-95: the GET failed; log it and go on with the next
\* name of the chunk.
LogAndContinue(r, k, n) ==
    [r EXCEPT !.res = Append(@, "failed"), !.st = After(k, n)]

\* The payload named after another segment than the one fetched.
PayloadMisnamed(w, k, ts, o) ==
    [w |-> w, k |-> k, name |-> CHOOSE n \in Names : n # ts,
     body |-> IF o = "ok" THEN "media" ELSE "errpage"]

\* lines 86-91: the response's body was read; the payload sent is the body
\* whatever the status of the response.
Payload(w, k, ts, o) ==
    [w |-> w, k |-> k, name |-> ts, body |-> IF o = "ok" THEN "media" ELSE "errpage"]

\* lines 72-99: one iteration of `for ts in list` in fetcher w.
Fetch(w) ==
    /\ Running
    /\ w \in 1..Len(workers)
    /\ workers[w].st = "running"
    /\ LET k  == Len(workers[w].res) + 1
           n  == Len(workers[w].data)
           ts == workers[w].data[k]
       IN  IF ~UrlResolves(base_url) \/ ~HeaderNamesValid(headers)
           THEN \* unwrap at line 73 or 76: the thread panics, its Sender drops
                /\ workers' = [workers EXCEPT ![w].st = "panicked"]
                /\ UNCHANGED chan
           ELSE \E o \in Outcomes :
                  IF o \in {"neterr", "bodyerr"}
                  THEN /\ workers' = [workers EXCEPT ![w] = LogAndContinue(@, k, n)]
                       /\ UNCHANGED chan
                  ELSE IF writer \in {"panicked", "finished"}
                       THEN \* the Receiver is gone: send fails, unwrap panics
                            /\ workers' = [workers EXCEPT ![w].res = Append(@, Class(o)),
                                                          ![w].st = "panicked"]
                            /\ UNCHANGED chan
                       ELSE /\ workers' = [workers EXCEPT ![w].res = Append(@, Class(o)),
                                                          ![w].st = After(k, n)]
                            /\ chan' = Append(chan, Payload(w, k, ts, o))
    /\ UNCHANGED <<pc, diag, exitCode, cfgVars, content, list, extracted, files,
                   atFilter, chunks, headers, total, pb, writer, mainTx, wlog, joined>>

Worker(w) == Fetch(w)

\* ------------------------------------------------------ the writer thread

\* The writer taking the newest payload of the queue instead of the oldest.
WriterRecvNewest ==
    /\ Running
    /\ writer = "running"
    /\ chan # <<>>
    /\ files' = [files EXCEPT ![chan[Len(chan)].name] = chan[Len(chan)].body]
    /\ wlog' = [wlog EXCEPT ![chan[Len(chan)].w] = Append(@, chan[Len(chan)].k)]
    /\ pb' = pb + 1
    /\ chan' = SubSeq(chan, 1, Len(chan) - 1)
    /\ UNCHANGED <<pc, diag, exitCode, cfgVars, content, list, extracted, atFilter, chunks,
                   headers, total, writer, workers, mainTx, joined>>

\* The writer receiving a second payload inside the loop and dropping it.
WriterRecvLossy ==
    /\ Running
    /\ writer = "running"
    /\ chan # <<>>
    /\ files' = [files EXCEPT ![Head(chan).name] = Head(chan).body]
    /\ wlog' = [wlog EXCEPT ![Head(chan).w] = Append(@, Head(chan).k)]
    /\ pb' = pb + 1
    /\ chan' = IF Len(chan) >= 2 THEN Tail(Tail(chan)) ELSE Tail(chan)
    /\ UNCHANGED <<pc, diag, exitCode, cfgVars, content, list, extracted, atFilter, chunks,
                   headers, total, writer, workers, mainTx, joined>>

\* lines 136-140: receive one payload, write it, advance the progress bar.
\* fs::write may fail, before or after it has created the file; unwrap
\* then panics and the Receiver is dropped with what it still holds.
WriterRecv ==
    /\ Running
    /\ writer = "running"
    /\ chan # <<>>
    /\ \E ok \in BOOLEAN :
          IF ok
          THEN /\ files' = [files EXCEPT ![Head(chan).name] = Head(chan).body]
               /\ wlog' = [wlog EXCEPT ![Head(chan).w] = Append(@, Head(chan).k)]
               /\ pb' = pb + 1
               /\ chan' = Tail(chan)
               /\ UNCHANGED writer
          ELSE /\ writer' = "panicked"
               /\ chan' = <<>>
               /\ \E created \in BOOLEAN :
                     files' = IF created
                              THEN [files EXCEPT ![Head(chan).name] = "partial"]
                              ELSE files
               /\ UNCHANGED <<wlog, pb>>
    /\ UNCHANGED <<pc, diag, exitCode, cfgVars, content, list, extracted, atFilter, chunks,
                   headers, total, workers, mainTx, joined>>

\* The writer ending as soon as it finds the channel empty (try_recv).
WriterFinishEarly ==
    /\ Running
    /\ writer = "running"
    /\ chan = <<>>
    /\ writer' = "finished"
    /\ UNCHANGED <<pc, diag, exitCode, cfgVars, content, list, extracted, files, atFilter,
                   chunks, headers, total, pb, workers, chan, mainTx, wlog, joined>>

\* lines 136 and 141: the channel is empty and every Sender is dropped, so
\* the iteration over rx ends.
WriterFinish ==
    /\ Running
    /\ writer = "running"
    /\ chan = <<>>
    /\ Senders = 0
    /\ writer' = "finished"
    /\ UNCHANGED <<pc, diag, exitCode, cfgVars, content, list, extracted, files, atFilter,
                   chunks, headers, total, pb, workers, chan, mainTx, wlog, joined>>

Writer == WriterRecv \/ WriterFinish

\* ------------------------------------------------------ specifications
Next ==
    \/ Orchestrator
    \/ \E w \in 1..MaxLines : Worker(w)
    \/ Writer

Spec == Init /\ [][Next]_vars

\* The threads are OS threads: each one that can run eventually does.
LiveSpec ==
    /\ Init
    /\ [][Next]_vars
    /\ WF_vars(Orchestrator)
    /\ \A w \in 1..MaxLines : WF_vars(Worker(w))
    /\ WF_vars(Writer)

TypeOK ==
    /\ pc \in {"Init", "Load", "Scan", "ListLoaded", "Filtered", "Partition", "SpawnWriter",
               "ParseHeader", "SpawnWorkers", "Scheduled", "Draining"} \cup Terminal
    /\ writer \in {"none", "running", "finished", "panicked"}
    /\ files \in [Names -> {"none", "old", "media", "errpage", "partial"}]
    /\ pb \in 0..MaxLines
    /\ Len(workers) <= MaxLines


\* ---------------------------------------------------------------------
\* Properties
\* ---------------------------------------------------------------------

ChunkPanic == "chunk size must be non-zero"

\* Every chunk of the partition has been handed to a fetcher thread.
AllSpawned ==
    \/ pc \in {"Scheduled", "Draining", "Done"}
    \/ pc = "Fatal" /\ diag = "join"

\* The chunks handed to the fetchers, one after the other.
RECURSIVE HandedFrom(_)
HandedFrom(w) ==
    IF w > Len(workers) THEN <<>> ELSE workers[w].data \o HandedFrom(w + 1)

Handed == HandedFrom(1)

\* Positions of chunk w whose payload the writer has written.
WrittenOf(w) == {wlog[w][i] : i \in 1..Len(wlog[w])}

\* C1: for a filtered list of length L >= 1 and a worker count N >= 1 the
\* partition does not fault and the chunks handed to the fetchers, taken
\* together, are the filtered list: every position in exactly one chunk.
C1_PartitionCovers ==
    (Len(list) >= 1 /\ thread_num >= 1) =>
        /\ diag # ChunkPanic
        /\ AllSpawned => Handed = list

\* C2: at most N fetcher threads are started, every chunk but the last has
\* floor(L/N) names and the remainder goes into the last chunk, not into
\* further chunks.
C2_OneTaskPerWorker ==
    AllSpawned =>
        /\ Len(workers) <= thread_num
        /\ \A w \in 1..(Len(workers) - 1) :
              Len(workers[w].data) = Len(list) \div thread_num

\* C3: with N >= L >= 1 the scheduler does not fault: the chunk size is
\* never zero and the run is not stopped by the partitioning.
C3_DegenerateNoFault ==
    (Len(list) >= 1 /\ thread_num >= Len(list) /\ pc \notin {"Init", "Load", "Scan", "ListLoaded", "Filtered", "Partition"}) =>
        ~(pc = "Fatal" /\ diag = ChunkPanic)

\* C4: a failed GET does not stop its fetcher nor any other: a fetcher that
\* has ended normally has gone through its whole chunk, and at Done every
\* fetcher has, and every segment whose GET succeeded has been written.
C4_FailureIsolation ==
    /\ \A w \in 1..Len(workers) :
          workers[w].st = "finished" => Len(workers[w].res) = Len(workers[w].data)
    /\ pc = "Done" =>
          \A w \in 1..Len(workers) :
             /\ workers[w].st = "finished"
             /\ \A k \in 1..Len(workers[w].data) :
                   workers[w].res[k] = "ok" =>
                      /\ k \in WrittenOf(w)
                      /\ files[workers[w].data[k]] \in {"media", "errpage"}

\* C4 witness: a run is Done in which a fetcher had a failed GET and then a
\* successful one on a later name of the same chunk, which was written.
C4_Witness ==
    /\ pc = "Done"
    /\ \E w \in 1..Len(workers) : \E k1, k2 \in 1..Len(workers[w].res) :
          /\ k1 < k2
          /\ workers[w].res[k1] = "failed"
          /\ workers[w].res[k2] = "ok"
          /\ k2 \in WrittenOf(w)

\* C5: a GET answered with a non-success status is a per-segment failure:
\* nothing is sent to the writer for it and nothing is written for it.
C5_Status404Skipped ==
    \A w \in 1..Len(workers) : \A k \in 1..Len(workers[w].res) :
       workers[w].res[k] = "status404" =>
          /\ k \notin WrittenOf(w)
          /\ \A i \in 1..Len(chan) : ~(chan[i].w = w /\ chan[i].k = k)

\* Positions of the extracted list whose file did not exist at filter time.
KeptPositions == {i \in 1..Len(extracted) : atFilter[extracted[i]] = "none"}

\* The i-th smallest element of a set of positions.
NthOf(I, j) == CHOOSE i \in I : Cardinality({m \in I : m <= i}) = j

\* The run has gone through the resume filtering step.
PostFilter ==
    \/ pc \in {"Filtered", "EarlyDone", "Partition", "SpawnWriter", "ParseHeader",
               "SpawnWorkers", "Scheduled", "Draining", "Done"}
    \/ pc = "Fatal" /\ diag # "create_dir_all"

\* C7: after the filtering step the list is, in resume mode, the names of
\* the extracted list whose file did not exist, in their original order and
\* with duplicates kept; without resume it is the extracted list.
C7_ResumeFilter ==
    PostFilter =>
        IF resume
        THEN /\ Len(list) = Cardinality(KeptPositions)
             /\ \A j \in 1..Len(list) : list[j] = extracted[NthOf(KeptPositions, j)]
        ELSE list = extracted

\* C7 witness: a resume run whose filter removed a name and kept two.
C7_Witness ==
    /\ pc = "Filtered"
    /\ resume
    /\ Len(list) < Len(extracted)
    /\ Len(list) >= 2

\* C8: in a resume run a segment whose file existed at filter time is never
\* fetched, never sent and its file keeps its content.
C8_ExistingUntouched ==
    (resume /\ PostFilter) =>
        \A n \in Names :
           atFilter[n] # "none" =>
              /\ files[n] = atFilter[n]
              /\ \A w \in 1..Len(workers) : \A k \in 1..Len(workers[w].data) :
                    workers[w].data[k] # n
              /\ \A i \in 1..Len(chan) : chan[i].name # n

\* C8 witness: a resume run is Done, a name of the playlist existed and was
\* left alone, another was fetched and written.
C8_Witness ==
    /\ pc = "Done"
    /\ resume
    /\ \E i \in 1..Len(extracted) : atFilter[extracted[i]] = "old"
    /\ pb >= 1

\* C9: an empty filtered list ends the run in EarlyDone with exit status 0:
\* no partition, no writer, no fetcher, no file written.
C9_EarlyDone ==
    /\ (PostFilter /\ list = <<>>) =>
          /\ pc \in {"Filtered", "EarlyDone"}
          /\ writer = "none"
          /\ workers = <<>>
          /\ chan = <<>>
          /\ files = atFilter
    /\ pc = "EarlyDone" => (list = <<>> /\ exitCode = 0)

\* C9 witness: a resume run of a non-empty playlist all of whose segments
\* exist has ended in EarlyDone.
C9_Witness ==
    /\ pc = "EarlyDone"
    /\ resume
    /\ Len(extracted) >= 2

\* No word of any line of the text is a segment name.
NoMatchingLine(text) ==
    \A i \in 1..Len(text) : \A j \in 1..Len(text[i]) : text[i][j] \notin Names

\* C10: a playlist without a matching line stops the run in the
\* invalid-playlist state, from which nothing more happens: no filtering,
\* no scheduling, no fetch, no file written.
C10_EmptyListFatal ==
    [][ /\ (pc = "Scan" /\ NoMatchingLine(content)) =>
              /\ pc' = "InvalidM3U8"
              /\ diag' = "m3u8 format is invalid"
              /\ writer' = "none" /\ workers' = <<>> /\ files' = files
        /\ pc = "InvalidM3U8" => UNCHANGED vars ]_vars

\* C10 witness: the run has stopped on an invalid playlist.
C10_Witness ==
    /\ pc = "InvalidM3U8"
    /\ diag = "m3u8 format is invalid"
    /\ extracted = <<>>
    /\ workers = <<>>

C11_WriteFailureFatal ==
    [][ writer = "panicked" =>
           /\ writer' = "panicked"
           /\ files' = files
           /\ wlog' = wlog
           /\ pb' = pb
           /\ pc # "Done" /\ pc' # "Done"
           /\ pc' \in Terminal => (pc' = "Fatal" /\ exitCode' = 101) ]_vars

\* C11 witness: a write failed after another had succeeded and the run has
\* ended in the fatal state.
C11_Witness ==
    /\ writer = "panicked"
    /\ pc = "Fatal"
    /\ diag = "join"
    /\ pb >= 1

\* C12: filtering is idempotent over the directory it ran on: filtering the
\* filtered list again gives the same list, its names are all absent, and a
\* list all of whose names exist filters to the empty list.
C12_FilterIdempotent ==
    PostFilter =>
        LET once == FilterNotExist(extracted, atFilter)
        IN  /\ FilterNotExist(once, atFilter) = once
            /\ \A j \in 1..Len(once) : atFilter[once[j]] = "none"
            /\ (\A i \in 1..Len(extracted) : atFilter[extracted[i]] # "none") => once = <<>>
            /\ resume => (list = once /\ FilterNotExist(list, atFilter) = list)

\* C12 witness: a resume run went on with a list the filter had shortened.
C12_Witness ==
    /\ pc = "Partition"
    /\ resume
    /\ list # <<>>
    /\ Len(list) < Len(extracted)

SentOf(w) ==
    {k \in 1..Len(workers[w].res) : workers[w].res[k] \in {"ok", "status404"}}

\* Positions of chunk w whose payload is in the channel.
QueuedOf(w) == {chan[i].k : i \in {j \in 1..Len(chan) : chan[j].w = w}}

\* A sequence without a repeated element.
NoRepeat(q) == \A i, j \in 1..Len(q) : q[i] = q[j] => i = j

\* C14: every payload sent is consumed exactly once: while the writer is
\* alive each sent payload is either in the channel once or written once,
\* and at Done the payloads written are exactly the payloads sent.
C14_ExactlyOnce ==
    /\ writer # "panicked" =>
          /\ NoRepeat(chan)
          /\ \A w \in 1..Len(workers) :
                /\ NoRepeat(wlog[w])
                /\ WrittenOf(w) \cap QueuedOf(w) = {}
                /\ WrittenOf(w) \cup QueuedOf(w) = SentOf(w)
    /\ pc = "Done" =>
          /\ chan = <<>>
          /\ \A w \in 1..Len(workers) :
                /\ WrittenOf(w) = SentOf(w)
                /\ Len(wlog[w]) = Cardinality(SentOf(w))

\* C14 witness: a run is Done whose writer took payloads of two fetchers.
C14_Witness ==
    /\ pc = "Done"
    /\ \E w1, w2 \in 1..Len(workers) :
          w1 # w2 /\ wlog[w1] # <<>> /\ wlog[w2] # <<>>

\* C15: the orchestrator is Done only when the writer and every fetcher
\* have finished, every handle is joined and no payload is left unwritten.
C15_JoinOrdering ==
    pc = "Done" =>
        /\ writer = "finished"
        /\ \A w \in 1..Len(workers) : workers[w].st = "finished"
        /\ joined = 1 + Len(workers)
        /\ chan = <<>>
        /\ chunks = <<>>

\* C15 witness: a run with three fetchers is Done.
C15_Witness ==
    /\ pc = "Done"
    /\ Len(workers) = 3
    /\ joined = 4

\* C16: the payloads of one fetcher carry the names of its chunk position
\* by position, lie in the channel in chunk order behind those already
\* written, and are written in chunk order.
C16_PerWorkerOrder ==
    /\ \A i \in 1..Len(chan) :
          /\ chan[i].name = workers[chan[i].w].data[chan[i].k]
          /\ \A j \in 1..Len(chan) :
                (chan[i].w = chan[j].w /\ i < j) => chan[i].k < chan[j].k
          /\ \A m \in 1..Len(wlog[chan[i].w]) : wlog[chan[i].w][m] < chan[i].k
    /\ \A w \in 1..Len(workers) : \A i, j \in 1..Len(wlog[w]) :
          i < j => wlog[w][i] < wlog[w][j]

\* C16 witness: the writer has written two payloads of one fetcher while a
\* third one of it waits in the channel.
C16_Witness ==
    \E w \in 1..Len(workers) :
       /\ Len(wlog[w]) >= 2
       /\ \E i \in 1..Len(chan) : chan[i].w = w

\* The names of the list.
ListNames == {list[i] : i \in 1..Len(list)}

\* C17: every name sent and every file written is a name of the filtered
\* list, and a payload is written under the name it carries: a file differs
\* from what it was at filter time only if a payload of that name was
\* written (or its write failed), and every written payload left a file.
C17_NamesFromList ==
    /\ \A w \in 1..Len(workers) : \A k \in 1..Len(workers[w].data) :
          workers[w].data[k] \in ListNames
    /\ \A i \in 1..Len(chan) :
          /\ chan[i].name \in ListNames
          /\ chan[i].name = workers[chan[i].w].data[chan[i].k]
    /\ \A n \in Names :
          files[n] # atFilter[n] =>
             /\ n \in ListNames
             /\ \/ \E w \in 1..Len(workers) : \E k \in WrittenOf(w) : workers[w].data[k] = n
                \/ writer = "panicked" /\ files[n] = "partial"
    /\ \A w \in 1..Len(workers) : \A k \in WrittenOf(w) :
          files[workers[w].data[k]] \in {"media", "errpage", "partial"}

\* C17 witness: a payload was written and another waits, in a run whose
\* list does not hold every name.
C17_Witness ==
    /\ pb >= 1
    /\ chan # <<>>
    /\ \E n \in Names : n \notin ListNames

\* Number of payloads written, over all fetchers.
RECURSIVE WrittenFrom(_)
WrittenFrom(w) ==
    IF w > MaxLines THEN 0 ELSE Len(wlog[w]) + WrittenFrom(w + 1)

\* Number of segments whose GET met a per-segment failure: a transport
\* error, an unreadable body or a non-success status.
RECURSIVE FailedFrom(_)
FailedFrom(w) ==
    IF w > Len(workers) THEN 0
    ELSE Cardinality({k \in 1..Len(workers[w].res) :
                         workers[w].res[k] \in {"failed", "status404"}})
         + FailedFrom(w + 1)

\* C18: the progress counter's total is the length of the filtered list,
\* its value is the number of payloads written and never exceeds the
\* total, and at Done it is the total minus the number of failed segments.
C18_ProgressCounter ==
    /\ writer # "none" =>
          /\ total = Len(list)
          /\ pb = WrittenFrom(1)
          /\ pb <= total
    /\ pc = "Done" => pb = total - FailedFrom(1)

\* C19: with a header file configured whose document does not parse, the
\* run never ends in EarlyDone or Done and no segment is fetched.
C19_MalformedHeaderFatal ==
    (header # "" /\ headerDoc.readable /\ ~headerDoc.parses) =>
        /\ pc \notin {"EarlyDone", "Done"}
        /\ \A w \in 1..Len(workers) : workers[w].res = <<>>

\* Some fetcher thread has panicked.
Faulted == \E w \in 1..Len(workers) : workers[w].st = "panicked"

\* C20 as stated: whenever a fetcher faulted and the run has ended, the
\* writer had finished, no fetcher was still running and every payload sent
\* had been written.
C20_FaultDrainsAll ==
    (Faulted /\ pc \in Terminal) =>
        /\ pc = "Fatal"
        /\ writer = "finished"
        /\ \A w \in 1..Len(workers) :
              workers[w].st # "running" /\ WrittenOf(w) = SentOf(w)

\* C20: a fetcher that faults releases its Sender: the run then always
\* ends, in the fatal state and never in Done; and when the writer is
\* alive it ends only after every fetcher has ended, the writer has written
\* every payload sent and has finished.
C20_FaultReleasesSender ==
    /\ [](Faulted => pc # "Done")
    /\ []((Faulted /\ writer # "panicked" /\ pc \in Terminal) =>
             /\ pc = "Fatal" /\ diag = "join"
             /\ writer = "finished"
             /\ chan = <<>>
             /\ \A w \in 1..Len(workers) :
                   workers[w].st # "running" /\ WrittenOf(w) = SentOf(w))
    /\ (Faulted ~> pc = "Fatal")

\* C20 witness: several fetchers faulted, the writer finished and the run
\* ended in the fatal state at the join loop.
C20_Witness ==
    /\ pc = "Fatal"
    /\ diag = "join"
    /\ writer = "finished"
    /\ Len(workers) >= 2
    /\ Faulted
====
